---------------------------- MODULE Spec2Model ----------------------------
(***************************************************************************)
(* The conversion / preview pipeline of imageconvert: the page component   *)
(* with the 250 ms preview debounce (src/app/page.tsx:572-944) and the     *)
(* cached, bitmap-based convertImage / generatePreview                     *)
(* (src/app/page.tsx:1012-1119).                                           *)
(*                                                                         *)
(* One action is one browser task: an event handler together with the      *)
(* render and the effects it triggers, a timer callback, or a promise      *)
(* settlement together with the microtask continuations that run after it. *)
(***************************************************************************)
EXTENDS Integers, Sequences, FiniteSets, TLC

(***************************************************************************)
(* Bounds of the model.                                                    *)
(***************************************************************************)
MaxEvents == 3      \* drops, format selections, slider moves and checkbox clicks
MaxCalls  == 2      \* calls of convertImage

(***************************************************************************)
(* The inputs the user can give.                                           *)
(***************************************************************************)
MB == 1024 * 1024

\* The files the user can drop: a name and the bytes, which decide the size.  The first
\* two have the same name and different bytes; the third is over the size limit.
Files == {[name |-> "a.png", content |-> 1, size |-> 3 * MB],
          [name |-> "a.png", content |-> 2, size |-> 20 * MB],
          [name |-> "b.png", content |-> 3, size |-> 20 * MB + 1]}

SliderValues == {30}

Formats == {"jpeg", "webp", "png", "avif"}

NoFile == [name |-> "", content |-> 0, size |-> 0]

VARIABLES
    mounted,          \* the Home component is mounted
    nEvents,          \* number of user inputs that set file or settings so far
    imageState,       \* useState<ImageState>
    settings,         \* useState<ConversionSettings>
    loadingStates,    \* useState({converting, preview, initial})
    error,            \* useState<string | null>, "" for null
    timers,           \* pending debounce timeouts, each with the values its closure captured
    calls,            \* the calls of convertImage that have not settled yet
    nCalls,           \* number of calls of convertImage so far
    blobCache,        \* the module-level Map<string, Blob>
    nBlobs,           \* number of Blobs canvas.toBlob has produced so far
    urls,             \* every object URL created: who created it, how often it was revoked
    bitmaps,          \* every ImageBitmap created: how often it was closed
    returned,         \* history: file, format, quality and Blob of every resolved call
    shown,            \* history: the request whose result is in nextPreviewUrl
    lastPreviewSeq,   \* history: the preview request issued last
    callsSinceChange, \* history: preview requests issued since the preview effect last re-ran
    burst,            \* history: consecutive re-runs of the preview effect that each came
                      \* while the timer of the one before was pending (saturates at 3)
    download,         \* the download attribute of the anchor clicked last, "" before
    lastInputs,       \* let lastInputs: ClassValue[] | null, <<>> for null, else <<array>>
    lastResult,       \* let lastResult: string | null, <<>> for null, else <<string>>
    objects,          \* the contents of the objects that callers hand to cn
    cnReturned        \* history: inputs, contents and result of the last call of cn

vars == <<mounted, nEvents, imageState, settings, loadingStates, error, timers, calls, nCalls,
          blobCache, nBlobs, urls, bitmaps, returned, shown, lastPreviewSeq,
          callsSinceChange, burst, download, lastInputs, lastResult, objects, cnReturned>>

\* The module-level memo of cn and the objects of its callers.
cnVars == <<lastInputs, lastResult, objects, cnReturned>>

MaxObjects == 1     \* objects that callers of cn keep and change between calls
MaxInputs == 2      \* arguments of one call of cn

\* The keys of an object handed to cn, in insertion order.
ObjectKeys == <<"hidden", "p-4">>

\* No call of cn yet: both module variables are null, every key of every object is falsy.
InitCn ==
    /\ lastInputs = <<>>
    /\ lastResult = <<>>
    /\ objects = [ref \in 1 .. MaxObjects |-> {}]
    /\ cnReturned = <<>>

(***************************************************************************)
(* Quality estimator.                                                      *)
(***************************************************************************)
\* Mutant of qualityMap: the webp values of the large and xlarge tiers are swapped.
qualityMap_Swapped ==
    [jpeg |-> [tiny |-> 90, small |-> 85, medium |-> 80,
               large |-> 70, xlarge |-> 60, huge |-> 50],
     webp |-> [tiny |-> 85, small |-> 80, medium |-> 75,
               large |-> 55, xlarge |-> 65, huge |-> 45]]

qualityMap ==
    [jpeg |-> [tiny |-> 90, small |-> 85, medium |-> 80,
               large |-> 70, xlarge |-> 60, huge |-> 50],
     webp |-> [tiny |-> 85, small |-> 80, medium |-> 75,
               large |-> 65, xlarge |-> 55, huge |-> 45]]

\* Mutant of getAutoQuality: the 2 MB threshold compared with >= instead of >.
getAutoQuality_AtLeast(file, format) ==
    LET size == file.size
        qualities == IF format = "webp" THEN qualityMap.webp ELSE qualityMap.jpeg
    IN  IF size > 10 * MB THEN qualities.huge
        ELSE IF size > 5 * MB THEN qualities.xlarge
        ELSE IF size >= 2 * MB THEN qualities.large
        ELSE IF size > MB THEN qualities.medium
        ELSE IF 2 * size > MB THEN qualities.small
        ELSE qualities.tiny

\* sizeInMB = size / 2^20 is exact, so sizeInMB > k is size > k * 2^20.
getAutoQuality(file, format) ==
    LET size == file.size
        qualities == IF format = "webp" THEN qualityMap.webp ELSE qualityMap.jpeg
    IN  IF size > 10 * MB THEN qualities.huge
        ELSE IF size > 5 * MB THEN qualities.xlarge
        ELSE IF size > 2 * MB THEN qualities.large
        ELSE IF size > MB THEN qualities.medium
        ELSE IF 2 * size > MB THEN qualities.small
        ELSE qualities.tiny

SupportsQuality(format) == format \in {"jpeg", "webp"}

\* Mutant of maxSize: a file of exactly 20 MB is over the limit.
maxSize_Exclusive == 20 * 1024 * 1024 - 1

maxSize == 20 * 1024 * 1024

(***************************************************************************)
(* Object URLs.                                                            *)
(***************************************************************************)
\* URL.createObjectURL: a fresh URL, never equal to an earlier one.
CreateObjectURL(us, kind) ==
    Append(us, [kind |-> kind, revoked |-> 0])

RevokeObjectURL(us, u) ==
    IF u = 0 THEN us ELSE [us EXCEPT ![u].revoked = @ + 1]

(***************************************************************************)
(* Conversion cache and codec (convertImage, generatePreview).             *)
(***************************************************************************)
\* Mutant of CacheKey: the quality is left out of the key.
CacheKey_NoQuality(file, format, quality) == file.name \o "-" \o format

\* const cacheKey = `${file.name}-${format}-${quality}`
CacheKey(file, format, quality) ==
    file.name \o "-" \o format \o "-" \o ToString(quality)

NoBlob == [id |-> 0, content |-> 0]

\* blobCache.get(cacheKey): NoBlob stands for undefined
CacheGet(cache, key) == IF key \in DOMAIN cache THEN cache[key] ELSE NoBlob

\* blobCache.set(cacheKey, blob)
CacheSet(cache, key, blob) ==
    [k \in DOMAIN cache \cup {key} |-> IF k = key THEN blob ELSE cache[k]]

\* The synchronous part of convertImage, up to its first await: a cache hit returns the
\* cached Blob, a miss calls createImageBitmap and waits for it.  A Blob is its identity
\* and the bytes it was encoded from.
ConvertImage(cache, seq, path, isMounted, file, format, quality) ==
    LET cachedBlob == CacheGet(cache, CacheKey(file, format, quality))
    IN  [seq       |-> seq,
         file      |-> file,
         format    |-> format,
         quality   |-> quality,
         path      |-> path,
         isMounted |-> isMounted,
         stage     |-> IF cachedBlob # NoBlob THEN "resolved" ELSE "bitmap",
         bitmap    |-> 0,
         blob      |-> cachedBlob]

\* bitmap.close()
ImageBitmapClose(bs, b) == [bs EXCEPT ![b] = @ + 1]

\* Mutant of FinallyClose: bitmap.close() after the await instead of in finally.
FinallyClose_OnlyOnSuccess(bs, c, ok) ==
    IF ok THEN ImageBitmapClose(bs, c.bitmap) ELSE bs

\* The finally block of convertImage: runs whether toBlob gave a Blob (ok) or null.
FinallyClose(bs, c, ok) == ImageBitmapClose(bs, c.bitmap)

\* The calls with this cache key whose decode or encode is running.
Computing(cs, key) ==
    {c \in cs : /\ c.stage \in {"bitmap", "toBlob"}
                /\ CacheKey(c.file, c.format, c.quality) = key}

(***************************************************************************)
(* The effects of the page component.                                      *)
(***************************************************************************)
\* The part of the state the preview effect and its cleanup work on.
World == [timers |-> timers, calls |-> calls,
          callsSinceChange |-> callsSinceChange, burst |-> burst]

\* Mutant of ClearTimeout: the cleanup forgets clearTimeout.
ClearTimeout_Forgotten(ts) == ts

\* clearTimeout(debounceTimeout): clears the timeout of the effect instance being cleaned
\* up, the one whose isMounted is still true, and no other.
ClearTimeout(ts) == {t \in ts : ~t.isMounted}

\* Mutant of EffectCleanup: the cleanup forgets isMounted = false.
EffectCleanup_StillMounted(w) == [w EXCEPT !.timers = ClearTimeout(w.timers)]

\* The cleanup of the preview effect: isMounted = false; clearTimeout(debounceTimeout).
EffectCleanup(w) ==
    [w EXCEPT
       !.timers = {[t EXCEPT !.isMounted = FALSE] : t \in ClearTimeout(w.timers)},
       !.calls  = {IF c.path = "preview" THEN [c EXCEPT !.isMounted = FALSE] ELSE c :
                     c \in w.calls}]

\* setTimeout(async () => {...}, 250): the closure captures file, format and quality.
SetTimeout(ts, img, st) ==
    ts \cup {[file |-> img.file, format |-> st.format, quality |-> st.quality,
              isMounted |-> TRUE]}

PreviewDeps(img, st) ==
    <<img.file, st.quality, st.format, SupportsQuality(st.format)>>

\* Mutant of PreviewEffect: the effect sets its timer also without a file and for
\* png and avif.
PreviewEffect_NoEarlyReturn(w, img0, st0, img, st) ==
    IF PreviewDeps(img, st) = PreviewDeps(img0, st0) THEN w
    ELSE LET c == EffectCleanup(w)
             n == [c EXCEPT !.callsSinceChange = 0,
                            !.burst = IF w.timers # {}
                                      THEN (IF w.burst < 3 THEN w.burst + 1 ELSE 3)
                                      ELSE 1]
         IN  [n EXCEPT !.timers = SetTimeout(c.timers, img, st)]

\* Mutant of PreviewEffect: the effect returns no cleanup function.
PreviewEffect_NoCleanup(w, img0, st0, img, st) ==
    IF PreviewDeps(img, st) = PreviewDeps(img0, st0) THEN w
    ELSE LET n == [w EXCEPT !.callsSinceChange = 0,
                            !.burst = IF w.timers # {}
                                      THEN (IF w.burst < 3 THEN w.burst + 1 ELSE 3)
                                      ELSE 1]
         IN  IF img.file = NoFile \/ ~SupportsQuality(st.format) THEN n
             ELSE [n EXCEPT !.timers = SetTimeout(w.timers, img, st)]

\* The preview effect after a render that took the state from (img0, st0) to (img, st).
PreviewEffect(w, img0, st0, img, st) ==
    IF PreviewDeps(img, st) = PreviewDeps(img0, st0) THEN w
    ELSE LET c == EffectCleanup(w)
             n == [c EXCEPT !.callsSinceChange = 0,
                            !.burst = IF w.timers # {}
                                      THEN (IF w.burst < 3 THEN w.burst + 1 ELSE 3)
                                      ELSE 1]
         IN  IF img.file = NoFile \/ ~SupportsQuality(st.format) THEN n
             ELSE [n EXCEPT !.timers = SetTimeout(c.timers, img, st)]

AutoDeps(img, st) == <<st.autoQuality, st.format, img.file>>

\* Mutant of AutoQualityEffect: the effect never sets the quality.
AutoQualityEffect_Never(img0, st0, img, st) == st

\* Mutant of AutoQualityEffect: the effect does not look at autoQuality.
AutoQualityEffect_IgnoresFlag(img0, st0, img, st) ==
    IF /\ AutoDeps(img, st) # AutoDeps(img0, st0)
       /\ img.file # NoFile /\ SupportsQuality(st.format)
    THEN [st EXCEPT !.quality = getAutoQuality(img.file, st.format)]
    ELSE st

\* The auto-quality effect after a render that took the state from (img0, st0) to (img, st).
AutoQualityEffect(img0, st0, img, st) ==
    IF /\ AutoDeps(img, st) # AutoDeps(img0, st0)
       /\ st.autoQuality /\ img.file # NoFile /\ SupportsQuality(st.format)
    THEN [st EXCEPT !.quality = getAutoQuality(img.file, st.format)]
    ELSE st

\* A handler has set the state to (img, st): the render, the effects, the render the
\* auto-quality effect causes, and the effects of that render.
Commit(img, st) ==
    LET w1  == PreviewEffect(World, imageState, settings, img, st)
        st2 == AutoQualityEffect(imageState, settings, img, st)
        w2  == PreviewEffect(w1, img, st, img, st2)
    IN  /\ imageState' = img
        /\ settings' = st2
        /\ timers' = w2.timers
        /\ calls' = w2.calls
        /\ callsSinceChange' = w2.callsSinceChange
        /\ burst' = w2.burst

NoRequest == [seq |-> 0, file |-> NoFile, format |-> "", quality |-> 0]

(***************************************************************************)
(* Initial state: the state the useState calls give, an empty cache.       *)
(***************************************************************************)
Init ==
    /\ mounted = TRUE
    /\ nEvents = 0
    /\ imageState = [file |-> NoFile, previewUrl |-> 0,
                     currentPreviewUrl |-> 0, nextPreviewUrl |-> 0]
    /\ settings = [format |-> "jpeg", quality |-> 95, autoQuality |-> TRUE]
    /\ loadingStates = [converting |-> FALSE, preview |-> FALSE]
    /\ error = ""
    /\ timers = {}
    /\ calls = {}
    /\ nCalls = 0
    /\ blobCache = [k \in {} |-> NoBlob]
    /\ nBlobs = 0
    /\ urls = <<>>
    /\ bitmaps = <<>>
    /\ returned = {}
    /\ shown = NoRequest
    /\ lastPreviewSeq = 0
    /\ callsSinceChange = 0
    /\ burst = 0
    /\ download = ""
    /\ InitCn

(***************************************************************************)
(* User actions.                                                           *)
(***************************************************************************)
\* Every drop hands over a new File object, so the file dropped is never the object
\* that is selected already.
handleFileDrop(file) ==
    /\ mounted
    /\ nEvents < MaxEvents
    /\ nEvents' = nEvents + 1
    /\ file # imageState.file
    /\ IF file.size > maxSize
       THEN /\ error' = "File size exceeds 20MB limit"
            /\ UNCHANGED <<imageState, settings, timers, calls, callsSinceChange,
                           burst, urls>>
       ELSE /\ error' = ""
            /\ urls' = CreateObjectURL(urls, "file")
            /\ Commit([imageState EXCEPT !.file = file,
                                         !.previewUrl = Len(urls) + 1,
                                         !.currentPreviewUrl = Len(urls) + 1],
                      IF settings.autoQuality /\ settings.format \in {"jpeg", "webp"}
                      THEN [settings EXCEPT
                              !.quality = getAutoQuality(file, settings.format)]
                      ELSE settings)
    /\ UNCHANGED <<mounted, loadingStates, nCalls, blobCache, nBlobs, bitmaps,
                   returned, shown, lastPreviewSeq>>
    /\ UNCHANGED <<download, cnVars>>

\* Mutant of handleFormatChange: the quality is not set to 100 for png and avif.
handleFormatChange_KeepsQuality(format) ==
    /\ mounted
    /\ nEvents < MaxEvents
    /\ nEvents' = nEvents + 1
    /\ Commit(imageState,
              IF /\ settings.autoQuality /\ format \in {"jpeg", "webp"}
                 /\ imageState.file # NoFile
              THEN [settings EXCEPT !.format = format,
                                    !.quality = getAutoQuality(imageState.file, format)]
              ELSE [settings EXCEPT !.format = format])
    /\ UNCHANGED <<mounted, loadingStates, error, nCalls, blobCache, nBlobs, urls,
                   bitmaps, returned, shown, lastPreviewSeq>>
    /\ UNCHANGED <<download, cnVars>>

\* Mutant of handleFormatChange: the estimate is taken whether autoQuality is on or off.
handleFormatChange_AlwaysAuto(format) ==
    /\ mounted
    /\ nEvents < MaxEvents
    /\ nEvents' = nEvents + 1
    /\ Commit(imageState,
              IF format \in {"jpeg", "webp"} /\ imageState.file # NoFile
              THEN [settings EXCEPT !.format = format,
                                    !.quality = getAutoQuality(imageState.file, format)]
              ELSE [settings EXCEPT !.format = format,
                                    !.quality = IF format \notin {"jpeg", "webp"}
                                                THEN 100 ELSE settings.quality])
    /\ UNCHANGED <<mounted, loadingStates, error, nCalls, blobCache, nBlobs, urls,
                   bitmaps, returned, shown, lastPreviewSeq>>
    /\ UNCHANGED <<download, cnVars>>

handleFormatChange(format) ==
    /\ mounted
    /\ nEvents < MaxEvents
    /\ nEvents' = nEvents + 1
    /\ Commit(imageState,
              IF /\ settings.autoQuality /\ format \in {"jpeg", "webp"}
                 /\ imageState.file # NoFile
              THEN [settings EXCEPT !.format = format,
                                    !.quality = getAutoQuality(imageState.file, format)]
              ELSE [settings EXCEPT !.format = format,
                                    !.quality = IF format \notin {"jpeg", "webp"}
                                                THEN 100 ELSE settings.quality])
    /\ UNCHANGED <<mounted, loadingStates, error, nCalls, blobCache, nBlobs, urls,
                   bitmaps, returned, shown, lastPreviewSeq>>
    /\ UNCHANGED <<download, cnVars>>

\* The slider is rendered only when supportsQuality holds.
handleQualityChange(value) ==
    /\ mounted
    /\ nEvents < MaxEvents
    /\ nEvents' = nEvents + 1
    /\ SupportsQuality(settings.format)
    /\ Commit(imageState, [settings EXCEPT !.quality = value, !.autoQuality = FALSE])
    /\ UNCHANGED <<mounted, loadingStates, error, nCalls, blobCache, nBlobs, urls,
                   bitmaps, returned, shown, lastPreviewSeq>>
    /\ UNCHANGED <<download, cnVars>>

\* The checkbox is rendered only when supportsQuality holds.
onCheckedChange(checked) ==
    /\ mounted
    /\ nEvents < MaxEvents
    /\ nEvents' = nEvents + 1
    /\ SupportsQuality(settings.format)
    /\ Commit(imageState, [settings EXCEPT !.autoQuality = checked])
    /\ UNCHANGED <<mounted, loadingStates, error, nCalls, blobCache, nBlobs, urls,
                   bitmaps, returned, shown, lastPreviewSeq>>
    /\ UNCHANGED <<download, cnVars>>

(***************************************************************************)
(* The continuations that run when convertImage settles.                   *)
(***************************************************************************)
\* Mutant of RevokePrevious: the updater publishes without revoking.
RevokePrevious_Skipped(us, prev, newPreviewUrl) == us

\* Mutant of RevokePrevious: the updater revokes prev.currentPreviewUrl.
RevokePrevious_Current(us, prev, newPreviewUrl) ==
    IF prev.currentPreviewUrl # 0 /\ prev.currentPreviewUrl # newPreviewUrl
    THEN RevokeObjectURL(us, prev.currentPreviewUrl)
    ELSE us

\* The setImageState updater of the preview effect revokes the previous converted
\* preview ...
RevokePrevious(us, prev, newPreviewUrl) ==
    IF prev.nextPreviewUrl # 0 /\ prev.nextPreviewUrl # newPreviewUrl
    THEN RevokeObjectURL(us, prev.nextPreviewUrl)
    ELSE us

\* ... and publishes the new one.
Publish(prev, newPreviewUrl) ==
    [prev EXCEPT !.nextPreviewUrl = newPreviewUrl, !.currentPreviewUrl = newPreviewUrl]

\* convertImage returns c.blob to its caller.
Return(c) ==
    returned' = returned \cup {[file |-> c.file, format |-> c.format,
                                quality |-> c.quality, blob |-> c.blob]}

\* generatePreview resolved for call c: the rest of the timer callback.
PreviewResolved(c) ==
    LET newPreviewUrl == Len(urls) + 1
        created == CreateObjectURL(urls, IF c.isMounted THEN "preview" ELSE "superseded")
    IN  /\ urls' = IF c.isMounted
                   THEN RevokePrevious(created, imageState, newPreviewUrl)
                   ELSE created
        /\ imageState' = IF c.isMounted
                         THEN Publish(imageState, newPreviewUrl)
                         ELSE imageState
        /\ shown' = IF c.isMounted
                    THEN [seq |-> c.seq, file |-> c.file, format |-> c.format,
                          quality |-> c.quality]
                    ELSE shown
        /\ loadingStates' = IF c.isMounted
                            THEN [loadingStates EXCEPT !.preview = FALSE]
                            ELSE loadingStates
        /\ UNCHANGED <<error, download>>

\* Mutant of PreviewRejected: the catch block resets the preview to the original image.
PreviewRejected_DropsPreview(c) ==
    /\ loadingStates' = IF c.isMounted
                        THEN [loadingStates EXCEPT !.preview = FALSE]
                        ELSE loadingStates
    /\ imageState' = [imageState EXCEPT !.currentPreviewUrl = imageState.previewUrl,
                                        !.nextPreviewUrl = 0]
    /\ urls' = IF imageState.nextPreviewUrl # 0
               THEN RevokeObjectURL(urls, imageState.nextPreviewUrl)
               ELSE urls
    /\ UNCHANGED <<error, shown, download>>

\* generatePreview rejected for call c: catch logs, finally clears the indicator.
PreviewRejected(c) ==
    /\ loadingStates' = IF c.isMounted
                        THEN [loadingStates EXCEPT !.preview = FALSE]
                        ELSE loadingStates
    /\ UNCHANGED <<imageState, urls, error, shown, download>>

\* A file name as the sequence of its pieces between the dots: <<"a", "b", "png">> is
\* a.b.png, <<"a">> is a, <<"", "png">> is .png.  No piece contains a dot.
MaxSegments == 3    \* pieces of a file name

Segments == {"a", "b", "png", ""}

NameSamples ==
    UNION {[1 .. n -> Segments] : n \in 1 .. MaxSegments} \ {<<"">>}

\* Array.prototype.join
RECURSIVE Join(_, _)
Join(parts, separator) ==
    IF parts = <<>> THEN ""
    ELSE IF Len(parts) = 1 THEN parts[1]
    ELSE parts[1] \o separator \o Join(Tail(parts), separator)

\* name.split('.'): the pieces between the dots, the one sequence of dot-free pieces that
\* joined with dots gives the name back.
Split(name) ==
    CHOOSE parts \in NameSamples : Join(parts, ".") = name

\* parts.slice(0, -1): everything but the last element; of one element nothing is left.
SliceOffLast(parts) == SubSeq(parts, 1, Len(parts) - 1)

\* const originalName = imageState.file.name.split('.').slice(0, -1).join('.');
\* a.download = `${originalName}-${settings.format}`;
DownloadName(file, format) ==
    Join(SliceOffLast(Split(file.name)), ".") \o "-" \o format

\* convertImage resolved for the call made by handleConvert: the download.  The state
\* setters of an unmounted component do nothing.
ConvertResolved(c) ==
    LET url == Len(urls) + 1
    IN  /\ urls' = RevokeObjectURL(CreateObjectURL(urls, "download"), url)
        /\ download' = DownloadName(c.file, c.format)
        /\ loadingStates' = IF mounted
                            THEN [loadingStates EXCEPT !.converting = FALSE]
                            ELSE loadingStates
        /\ UNCHANGED <<imageState, error, shown>>

\* Mutant of ConvertRejected: converting is reset after the await, not in finally.
ConvertRejected_NoFinally(c) ==
    /\ error' = IF mounted THEN "Failed to convert image" ELSE error
    /\ UNCHANGED <<loadingStates, imageState, urls, shown, download>>

\* convertImage rejected for the call made by handleConvert.
ConvertRejected(c) ==
    /\ error' = IF mounted THEN "Failed to convert image" ELSE error
    /\ loadingStates' = IF mounted
                        THEN [loadingStates EXCEPT !.converting = FALSE]
                        ELSE loadingStates
    /\ UNCHANGED <<imageState, urls, shown, download>>

Resolved(c) ==
    /\ Return(c)
    /\ IF c.path = "preview" THEN PreviewResolved(c) ELSE ConvertResolved(c)

Rejected(c) ==
    /\ UNCHANGED returned
    /\ IF c.path = "preview" THEN PreviewRejected(c) ELSE ConvertRejected(c)

(***************************************************************************)
(* Timer callback and download.                                            *)
(***************************************************************************)
\* A debounce timeout expires: setLoadingStates(preview: true), then generatePreview.
\* On a cache hit the whole callback runs to its end in this task.
TimerFire ==
    \E t \in timers :
       /\ nCalls < MaxCalls
       /\ nCalls' = nCalls + 1
       /\ timers' = timers \ {t}
       /\ callsSinceChange' = callsSinceChange + 1
       /\ lastPreviewSeq' = nCalls + 1
       /\ LET c == ConvertImage(blobCache, nCalls + 1, "preview", t.isMounted,
                                t.file, t.format, t.quality)
          IN  IF c.stage = "resolved"
              THEN /\ Resolved(c)
                   /\ UNCHANGED calls
              ELSE /\ calls' = calls \cup {c}
                   /\ loadingStates' = [loadingStates EXCEPT !.preview = TRUE]
                   /\ UNCHANGED <<imageState, urls, error, shown, returned, download>>
       /\ UNCHANGED <<mounted, nEvents, settings, blobCache, nBlobs, bitmaps, burst>>
       /\ UNCHANGED cnVars

\* The submit button is disabled while no file is selected or a download is converting.
handleConvert ==
    /\ mounted
    /\ imageState.file # NoFile
    /\ ~loadingStates.converting
    /\ nCalls < MaxCalls
    /\ nCalls' = nCalls + 1
    /\ LET c == ConvertImage(blobCache, nCalls + 1, "download", TRUE,
                             imageState.file, settings.format, settings.quality)
       IN  IF c.stage = "resolved"
           THEN /\ Resolved(c)
                /\ UNCHANGED calls
           ELSE /\ calls' = calls \cup {c}
                /\ loadingStates' = [loadingStates EXCEPT !.converting = TRUE]
                /\ UNCHANGED <<imageState, urls, error, shown, returned, download>>
    /\ UNCHANGED <<mounted, nEvents, settings, timers, blobCache, nBlobs, bitmaps,
                   lastPreviewSeq, callsSinceChange, burst>>
    /\ UNCHANGED cnVars

(***************************************************************************)
(* The codec settles.                                                      *)
(***************************************************************************)
\* createImageBitmap(file) resolves: the bitmap is drawn and canvas.toBlob is called.
BitmapResolves(c) ==
    /\ c.stage = "bitmap"
    /\ bitmaps' = Append(bitmaps, 0)
    /\ calls' = (calls \ {c}) \cup {[c EXCEPT !.stage = "toBlob",
                                               !.bitmap = Len(bitmaps) + 1]}
    /\ UNCHANGED <<mounted, nEvents, imageState, settings, loadingStates, error, timers, nCalls,
                   blobCache, nBlobs, urls, returned, shown,
                   lastPreviewSeq, callsSinceChange, burst>>
    /\ UNCHANGED <<download, cnVars>>

\* createImageBitmap(file) rejects: convertImage rejects before its try block.
BitmapRejects(c) ==
    /\ c.stage = "bitmap"
    /\ calls' = calls \ {c}
    /\ Rejected(c)
    /\ UNCHANGED <<mounted, nEvents, settings, timers, nCalls, blobCache, nBlobs,
                   bitmaps, lastPreviewSeq, callsSinceChange, burst>>
    /\ UNCHANGED cnVars

\* canvas.toBlob calls back with a Blob: it is cached, the bitmap is closed.
ToBlobResolves(c) ==
    /\ c.stage = "toBlob"
    /\ LET blob == [id |-> nBlobs + 1, content |-> c.file.content]
       IN  /\ nBlobs' = nBlobs + 1
           /\ blobCache' = CacheSet(blobCache, CacheKey(c.file, c.format, c.quality), blob)
           /\ bitmaps' = FinallyClose(bitmaps, c, TRUE)
           /\ calls' = calls \ {c}
           /\ Resolved([c EXCEPT !.blob = blob])
    /\ UNCHANGED <<mounted, nEvents, settings, timers, nCalls, lastPreviewSeq,
                   callsSinceChange, burst>>
    /\ UNCHANGED cnVars

\* Mutant of ToBlobRejects: an empty Blob is cached for the key of the failed call.
ToBlobRejects_CachesFailure(c) ==
    /\ c.stage = "toBlob"
    /\ bitmaps' = FinallyClose(bitmaps, c, FALSE)
    /\ blobCache' = CacheSet(blobCache, CacheKey(c.file, c.format, c.quality),
                             [id |-> nBlobs + 1, content |-> 0])
    /\ calls' = calls \ {c}
    /\ Rejected(c)
    /\ UNCHANGED <<mounted, nEvents, settings, timers, nCalls, nBlobs,
                   lastPreviewSeq, callsSinceChange, burst>>
    /\ UNCHANGED cnVars

\* canvas.toBlob calls back with null: convertImage rejects, the bitmap is closed.
ToBlobRejects(c) ==
    /\ c.stage = "toBlob"
    /\ bitmaps' = FinallyClose(bitmaps, c, FALSE)
    /\ calls' = calls \ {c}
    /\ Rejected(c)
    /\ UNCHANGED <<mounted, nEvents, settings, timers, nCalls, blobCache, nBlobs,
                   lastPreviewSeq, callsSinceChange, burst>>
    /\ UNCHANGED cnVars

(***************************************************************************)
(* The component unmounts.                                                 *)
(***************************************************************************)
\* The imageState the closure of the effect with the empty dependency list holds: the
\* one of the first render.
CleanupClosure ==
    [file |-> NoFile, previewUrl |-> 0, currentPreviewUrl |-> 0, nextPreviewUrl |-> 0]

\* The cleanup of the effect with the empty dependency list.
UnmountCleanup(us, img) ==
    RevokeObjectURL(RevokeObjectURL(us, img.previewUrl), img.nextPreviewUrl)

Unmount ==
    /\ mounted
    /\ mounted' = FALSE
    /\ LET w == EffectCleanup(World)
       IN  /\ timers' = w.timers
           /\ calls' = w.calls
    /\ urls' = UnmountCleanup(urls, CleanupClosure)
    /\ UNCHANGED <<nEvents, imageState, settings, loadingStates, error, nCalls,
                   blobCache, nBlobs, bitmaps, returned, shown, lastPreviewSeq,
                   callsSinceChange, burst>>
    /\ UNCHANGED <<download, cnVars>>

Next ==
    \/ \E file \in Files : handleFileDrop(file)
    \/ \E format \in Formats : handleFormatChange(format)
    \/ \E value \in SliderValues : handleQualityChange(value)
    \/ \E checked \in BOOLEAN : onCheckedChange(checked)
    \/ TimerFire
    \/ handleConvert
    \/ \E c \in calls : BitmapResolves(c)
    \/ \E c \in calls : BitmapRejects(c)
    \/ \E c \in calls : ToBlobResolves(c)
    \/ \E c \in calls : ToBlobRejects(c)
    \/ Unmount

Spec == Init /\ [][Next]_vars

(***************************************************************************)
(* Properties.                                                             *)
(***************************************************************************)
RequestNow == <<imageState.file, settings.format, settings.quality>>

\* A converted preview is published in this step.
Published == imageState'.nextPreviewUrl # imageState.nextPreviewUrl

\* A preview conversion is issued in this step.
Issued == lastPreviewSeq' # lastPreviewSeq

\* C1: whenever a preview conversion's result is written into nextPreviewUrl and
\* currentPreviewUrl, it is the result of the preview request issued last, and that
\* request carries the file, format and quality selected at that moment: a result that
\* completes after a later change is never written.
C1_OnlyLatestRequestPublished ==
    [][Published =>
         /\ shown'.seq = lastPreviewSeq'
         /\ <<shown'.file, shown'.format, shown'.quality>> = RequestNow'
         /\ imageState'.currentPreviewUrl = imageState'.nextPreviewUrl]_vars

\* C1, witness: the later request completed first and is on display; the earlier one
\* completed after it and its URL is not on display.
C1_Witness ==
    /\ imageState.nextPreviewUrl # 0
    /\ imageState.currentPreviewUrl = imageState.nextPreviewUrl
    /\ shown.seq = 2
    /\ \E u \in DOMAIN urls : u > imageState.nextPreviewUrl /\ urls[u].kind = "superseded"

C3_OneComputationPerKey ==
    \A c \in calls :
       Cardinality(Computing(calls, CacheKey(c.file, c.format, c.quality))) <= 1

\* C4: a call of convertImage made now with the file, format and quality of a call that
\* has resolved returns the Blob that call returned, without decoding or encoding.
C4_SameBlobAgain ==
    \A r \in returned :
       LET c == ConvertImage(blobCache, nCalls + 1, "download", TRUE,
                             r.file, r.format, r.quality)
       IN  c.stage = "resolved" /\ c.blob.id = r.blob.id

\* C5: the Blob convertImage returns for a file was encoded from the bytes of that file.
C5_BlobIsOfRequestedFile ==
    \A r \in returned : r.blob.content = r.file.content

\* C6: the object URL created for a superseded preview conversion is revoked.
C6_SupersededUrlRevoked ==
    \A u \in DOMAIN urls : urls[u].kind = "superseded" => urls[u].revoked >= 1

\* C7: a step that publishes a new converted preview revokes the URL that was in
\* nextPreviewUrl before, and no object URL is ever revoked more than once.
C7_PreviousRevokedOnce ==
    [][/\ \A u \in DOMAIN urls' : urls'[u].revoked <= 1
       /\ (Published /\ imageState.nextPreviewUrl # 0)
          => /\ urls[imageState.nextPreviewUrl].revoked = 0
             /\ urls'[imageState.nextPreviewUrl].revoked = 1]_vars

\* C7, witness: a second converted preview is on display and the first one's URL has
\* been revoked.
C7_Witness ==
    /\ imageState.nextPreviewUrl # 0
    /\ \E u \in DOMAIN urls : /\ u < imageState.nextPreviewUrl
                              /\ urls[u].kind = "preview"
                              /\ urls[u].revoked = 1

\* C8: at most two object URLs (one current, one in flight) are created and not yet
\* revoked at any time.
C8_LiveUrlsBounded ==
    Cardinality({u \in DOMAIN urls : urls[u].revoked = 0}) <= 2

\* C9: after the component has unmounted, the URL of the selected file and the URL of
\* the converted preview have each been revoked exactly once.
C9_RevokedOnUnmount ==
    ~mounted =>
       /\ imageState.previewUrl # 0 => urls[imageState.previewUrl].revoked = 1
       /\ imageState.nextPreviewUrl # 0 => urls[imageState.nextPreviewUrl].revoked = 1

\* C10: the number of entries in the conversion cache never exceeds a fixed cap; the
\* cap taken here lies below the number of conversions that can be made, so that it can
\* be reached at all.
C10_CacheBounded == Cardinality(DOMAIN blobCache) <= MaxCalls - 1

(***************************************************************************)
(* The quality estimator on its own: getAutoQuality applied to a file of   *)
(* any size and any target format, as the effect that keeps the quality    *)
(* automatic applies it (src/app/page.tsx:104-110).                         *)
(***************************************************************************)
MaxOffset == 1      \* bytes below and above each threshold that are tried

\* File sizes in bytes: each threshold of getAutoQuality, its neighbours, and sizes
\* well inside the tiers.
SizeSamples ==
    {0, 3 * MB, 20 * MB, 100 * MB}
        \cup {t + d : t \in {MB \div 2, MB, 2 * MB, 5 * MB, 10 * MB},
                      d \in -MaxOffset .. MaxOffset}

InitQuality ==
    /\ mounted = TRUE
    /\ nEvents = 0
    /\ \E size \in SizeSamples :
          imageState = [file |-> [name |-> "a.png", content |-> 1, size |-> size],
                        previewUrl |-> 0, currentPreviewUrl |-> 0, nextPreviewUrl |-> 0]
    /\ \E format \in Formats :
          settings = [format |-> format, quality |-> 95, autoQuality |-> TRUE]
    /\ loadingStates = [converting |-> FALSE, preview |-> FALSE]
    /\ error = ""
    /\ timers = {}
    /\ calls = {}
    /\ nCalls = 0
    /\ blobCache = [k \in {} |-> NoBlob]
    /\ nBlobs = 0
    /\ urls = <<>>
    /\ bitmaps = <<>>
    /\ returned = {}
    /\ shown = NoRequest
    /\ lastPreviewSeq = 0
    /\ callsSinceChange = 0
    /\ burst = 0
    /\ download = ""
    /\ InitCn

\* setQuality(getAutoQuality(selectedFile, format))
EstimateQuality ==
    /\ imageState.file # NoFile
    /\ settings.autoQuality
    /\ settings' = [settings EXCEPT
                       !.quality = getAutoQuality(imageState.file, settings.format)]
    /\ UNCHANGED <<mounted, nEvents, imageState, loadingStates, error, timers, calls,
                   nCalls, blobCache, nBlobs, urls, bitmaps, returned, shown,
                   lastPreviewSeq, callsSinceChange, burst>>
    /\ UNCHANGED <<download, cnVars>>

NextQuality == EstimateQuality

SpecQuality == InitQuality /\ [][NextQuality]_vars

C12_HundredForOtherFormats ==
    [][settings.format \notin {"jpeg", "webp"} => settings'.quality = 100]_vars

(***************************************************************************)
(* Properties of the page component, continued.                            *)
(***************************************************************************)
\* C13: once the effects of a user action have run, if a file is selected, auto quality
\* is on and the format is jpeg or webp, the quality setting is the estimator's value for
\* the file and the format; for the 3 MB file that is 70 with jpeg and 65 with webp.
C13_AutoQualityInSync ==
    (imageState.file # NoFile /\ settings.autoQuality
            /\ settings.format \in {"jpeg", "webp"}) =>
        /\ settings.quality = getAutoQuality(imageState.file, settings.format)
        /\ imageState.file.size = 3 * MB =>
              settings.quality = IF settings.format = "jpeg" THEN 70 ELSE 65

\* C13, witness: the 3 MB file is selected and the user has switched from jpeg to webp
\* with auto quality on: the quality is 65.
C13_Witness ==
    /\ imageState.file.size = 3 * MB
    /\ settings = [format |-> "webp", quality |-> 65, autoQuality |-> TRUE]
    /\ nEvents >= 2

\* C14: a step in which a preview conversion fails leaves the file, the settings, both
\* preview URLs and every object URL as they were; and every change of the file or the
\* settings that leaves a file selected and a format with a quality schedules a preview
\* for the new values, also after a failure.
C14_PreviewFailureKeepsState ==
    [][/\ (\E c \in calls :
              /\ c.path = "preview"
              /\ \A d \in calls' : d.seq # c.seq
              /\ Len(urls') = Len(urls))
          => /\ imageState' = imageState
             /\ settings' = settings
             /\ urls' = urls
             /\ mounted' = mounted
       /\ (/\ mounted'
           /\ PreviewDeps(imageState', settings') # PreviewDeps(imageState, settings)
           /\ imageState'.file # NoFile
           /\ SupportsQuality(settings'.format))
          => \E t \in timers' :
                /\ t.isMounted
                /\ <<t.file, t.format, t.quality>> = RequestNow']_vars

\* C14, witness: the first preview is on display, its URL not revoked; the second
\* preview conversion has failed (it is the last one issued, it has settled, and only
\* one Blob was ever made); a later change has a timer pending.
C14_Witness ==
    /\ shown.seq = 1 /\ lastPreviewSeq = 2
    /\ calls = {} /\ nBlobs = 1
    /\ imageState.nextPreviewUrl # 0
    /\ imageState.currentPreviewUrl = imageState.nextPreviewUrl
    /\ urls[imageState.nextPreviewUrl].revoked = 0
    /\ timers # {}

\* C15: a step in which the conversion started by handleConvert fails creates no object
\* URL, so starts no download, and leaves the file, the settings and the preview URLs as
\* they were; in the mounted component it sets the error message and puts the converting
\* flag back to false.  A step in which that conversion succeeds, and so creates the
\* download URL, also leaves the converting flag false.
C15_ConvertFailureSurfaced ==
    [][/\ (\E c \in calls :
              /\ c.path = "download"
              /\ \A d \in calls' : d.seq # c.seq
              /\ Len(urls') = Len(urls))
          => /\ urls' = urls
             /\ imageState' = imageState
             /\ settings' = settings
             /\ mounted => /\ error' = "Failed to convert image"
                            /\ ~loadingStates'.converting
       /\ (/\ Len(urls') > Len(urls)
           /\ urls'[Len(urls')].kind = "download"
           /\ mounted)
          => ~loadingStates'.converting]_vars

\* C15, witness: a download was requested and failed: the message is shown, the button
\* is enabled again, the file is still selected and no download URL was ever created.
C15_Witness ==
    /\ mounted
    /\ error = "Failed to convert image"
    /\ ~loadingStates.converting
    /\ imageState.file # NoFile
    /\ \A u \in DOMAIN urls : urls[u].kind # "download"

\* C16: every ImageBitmap the bitmap-based convertImage has created is open while the
\* call that created it has not settled, and has been closed exactly once when that call
\* has settled, whether canvas.toBlob gave a Blob or null.
C16_BitmapClosedOnce ==
    \A b \in DOMAIN bitmaps :
        bitmaps[b] = IF \E c \in calls : c.bitmap = b THEN 0 ELSE 1

\* C16, witness: two calls created a bitmap each and have settled, one with a Blob and
\* one with null from canvas.toBlob; both bitmaps are closed.
C16_Witness ==
    /\ Len(bitmaps) = 2
    /\ calls = {}
    /\ nBlobs = 1

(***************************************************************************)
(* The Image-element-based convertImage (src/lib/imageUtils.ts:56-90):     *)
(* calls holds its calls that have not settled, urls the temporary object  *)
(* URLs it creates.                                                         *)
(***************************************************************************)
\* convertImage(file, format, quality) up to the first await: the object URL is
\* created, img.src is set, and only img.onload is given a handler.
convertImage(file, format, quality) ==
    /\ nCalls < MaxCalls
    /\ nCalls' = nCalls + 1
    /\ urls' = CreateObjectURL(urls, "temp")
    /\ calls' = calls \cup {[seq       |-> nCalls + 1,
                              file      |-> file,
                              format    |-> format,
                              quality   |-> quality,
                              objectUrl |-> Len(urls) + 1,
                              stage     |-> "load"]}
    /\ UNCHANGED <<mounted, nEvents, imageState, settings, loadingStates, error, timers,
                   blobCache, nBlobs, bitmaps, returned, shown, lastPreviewSeq,
                   callsSinceChange, burst>>
    /\ UNCHANGED <<download, cnVars>>

\* The browser decodes the source and fires load: img.onload resolves the first
\* promise, the image is drawn and canvas.toBlob is called.
ImgOnload(c) ==
    /\ c.stage = "load"
    /\ calls' = (calls \ {c}) \cup {[c EXCEPT !.stage = "toBlob"]}
    /\ UNCHANGED <<mounted, nEvents, imageState, settings, loadingStates, error, timers,
                   nCalls, blobCache, nBlobs, urls, bitmaps, returned, shown,
                   lastPreviewSeq, callsSinceChange, burst>>
    /\ UNCHANGED <<download, cnVars>>

\* The browser cannot decode the source and fires error: img.onerror has no handler, so
\* nothing settles the first promise and the call stays suspended at its await.
ImgOnerror(c) ==
    /\ c.stage = "load"
    /\ calls' = (calls \ {c}) \cup {[c EXCEPT !.stage = "error"]}
    /\ UNCHANGED <<mounted, nEvents, imageState, settings, loadingStates, error, timers,
                   nCalls, blobCache, nBlobs, urls, bitmaps, returned, shown,
                   lastPreviewSeq, callsSinceChange, burst>>
    /\ UNCHANGED <<download, cnVars>>

\* canvas.toBlob gives a Blob: finally revokes the object URL, the call resolves.
ImgToBlobResolves(c) ==
    /\ c.stage = "toBlob"
    /\ nBlobs' = nBlobs + 1
    /\ urls' = RevokeObjectURL(urls, c.objectUrl)
    /\ returned' = returned \cup {[file |-> c.file, format |-> c.format,
                                    quality |-> c.quality,
                                    blob |-> [id |-> nBlobs + 1,
                                              content |-> c.file.content]]}
    /\ calls' = calls \ {c}
    /\ UNCHANGED <<mounted, nEvents, imageState, settings, loadingStates, error, timers,
                   nCalls, blobCache, bitmaps, shown, lastPreviewSeq, callsSinceChange,
                   burst>>
    /\ UNCHANGED <<download, cnVars>>

\* canvas.toBlob gives null: the call rejects, finally revokes the object URL.
ImgToBlobRejects(c) ==
    /\ c.stage = "toBlob"
    /\ urls' = RevokeObjectURL(urls, c.objectUrl)
    /\ calls' = calls \ {c}
    /\ UNCHANGED <<mounted, nEvents, imageState, settings, loadingStates, error, timers,
                   nCalls, blobCache, nBlobs, bitmaps, returned, shown, lastPreviewSeq,
                   callsSinceChange, burst>>
    /\ UNCHANGED <<download, cnVars>>

NextImage ==
    \/ \E file \in Files, format \in Formats, quality \in SliderValues :
          convertImage(file, format, quality)
    \/ \E c \in calls : ImgOnload(c)
    \/ \E c \in calls : ImgOnerror(c)
    \/ \E c \in calls : ImgToBlobResolves(c)
    \/ \E c \in calls : ImgToBlobRejects(c)

SpecImage == Init /\ [][NextImage]_vars

\* C17: once the browser has reported that the source of a call cannot be decoded, the
\* call has been rejected, so it is no longer among the unsettled calls, and its
\* temporary object URL has been revoked.
C17_UndecodableSourceRejects ==
    /\ \A c \in calls : c.stage # "error"
    /\ \A u \in DOMAIN urls :
          urls[u].revoked = 0 =>
              \E c \in calls : c.objectUrl = u /\ c.stage \in {"load", "toBlob"}

\* C18: handleFileDrop with a file of more than 20 * 1024 * 1024 bytes sets the error
\* message "File size exceeds 20MB limit", leaves the selected file, the preview URLs and
\* the settings as they were and creates no object URL; with a file of that size or less
\* it selects the file and shows no error.
C18_OversizeRejected ==
    [][\A f \in Files :
          handleFileDrop(f) =>
              IF f.size > 20 * 1024 * 1024
              THEN /\ error' = "File size exceeds 20MB limit"
                   /\ imageState' = imageState
                   /\ settings' = settings
                   /\ urls' = urls
              ELSE /\ error' = ""
                   /\ imageState'.file = f
                   /\ Len(urls') = Len(urls) + 1]_vars

\* C18, witness: the file of exactly 20 MB was accepted and is selected; the file one
\* byte larger was dropped after it and refused.
C18_Witness ==
    /\ imageState.file.size = 20 * 1024 * 1024
    /\ imageState.previewUrl # 0
    /\ error = "File size exceeds 20MB limit"

\* C19: the quality setting is always an integer from 1 to 100, and it is 100 whenever
\* the format is png or avif.
C19_QualityInRange ==
    /\ settings.quality \in 1 .. 100
    /\ settings.format \in {"png", "avif"} => settings.quality = 100

\* C19, witness: a file is selected with a quality below 100, and the user has then
\* chosen avif: the quality is 100.
C19_Witness ==
    /\ imageState.file # NoFile
    /\ settings.format = "avif"
    /\ settings.quality = 100
    /\ nEvents >= 2

\* C20: loadingStates.preview is switched on only for a preview conversion that is
\* already in flight, never in the step that issues the conversion, when it has been in
\* flight for no time at all.
C20_IndicatorOnlyAfterGrace ==
    [][(~loadingStates.preview /\ loadingStates'.preview) =>
          /\ ~Issued
          /\ \E c \in calls : c.path = "preview" /\ c.seq = lastPreviewSeq]_vars

\* C21: two conversion requests on the same file and format that differ in quality have
\* different cache keys, and neither is answered with the Blob the other was answered
\* with.
C21_DistinctEntryPerQuality ==
    \A r1, r2 \in returned :
        (r1.file = r2.file /\ r1.format = r2.format /\ r1.quality # r2.quality) =>
            /\ CacheKey(r1.file, r1.format, r1.quality)
                  # CacheKey(r2.file, r2.format, r2.quality)
            /\ r1.blob.id # r2.blob.id

\* C21, witness: the same file was converted to the same format with two qualities, and
\* the cache holds an entry for each.
C21_Witness ==
    \E r1, r2 \in returned :
        /\ r1.file = r2.file /\ r1.format = r2.format /\ r1.quality # r2.quality
        /\ CacheGet(blobCache, CacheKey(r1.file, r1.format, r1.quality)) = r1.blob
        /\ CacheGet(blobCache, CacheKey(r2.file, r2.format, r2.quality)) = r2.blob

C23_NoRevokeWhileDisplayed ==
    [][\A u \in DOMAIN urls' :
          (urls'[u].revoked > IF u \in DOMAIN urls THEN urls[u].revoked ELSE 0) =>
              /\ u # imageState.previewUrl
              /\ u # imageState'.previewUrl
              /\ u # imageState'.currentPreviewUrl]_vars

\* C23, witness: a converted preview was replaced on display by a newer one and revoked;
\* the original and the preview now on display are not revoked.
C23_Witness ==
    /\ mounted
    /\ \E u \in DOMAIN urls :
          /\ urls[u].kind = "preview" /\ urls[u].revoked = 1
          /\ u # imageState.currentPreviewUrl
    /\ imageState.currentPreviewUrl # imageState.previewUrl
    /\ urls[imageState.currentPreviewUrl].revoked = 0
    /\ urls[imageState.previewUrl].revoked = 0

(***************************************************************************)
(* The page component with the 150 ms preview debounce                     *)
(* (src/app/page.tsx:266-570), whose preview effect lists livePreviewUrl   *)
(* among its dependencies, with generatePreview and the Image-element      *)
(* convertImage of src/lib/imageUtils.ts.  The component keeps in separate *)
(* useState cells what the later one keeps in imageState, settings and     *)
(* loadingStates: imageState.file is selectedFile, imageState.previewUrl   *)
(* is previewUrl, imageState.currentPreviewUrl is livePreviewUrl.          *)
(***************************************************************************)
livePreviewUrl == imageState.currentPreviewUrl

\* The part of the state the live preview effect and its cleanup work on.
LiveWorld == [timers |-> timers, calls |-> calls, urls |-> urls]

\* The cleanup of the live preview effect: isMounted = false; clearTimeout of both
\* timeouts; URL.revokeObjectURL of the livePreviewUrl the instance was created with,
\* which is the one of the render before the change.
LiveCleanup(w, img0) ==
    [w EXCEPT
       !.timers = {[t EXCEPT !.isMounted = FALSE] : t \in ClearTimeout(w.timers)},
       !.calls  = {[c EXCEPT !.isMounted = FALSE, !.loadingTimeout = FALSE] :
                     c \in w.calls},
       !.urls   = RevokeObjectURL(w.urls, img0.currentPreviewUrl)]

\* const debounceTimer = setTimeout(updateLivePreview, 150): the closure captures the
\* values of the render the effect belongs to.
LiveSetTimeout(ts, img, st) ==
    ts \cup {[file |-> img.file, format |-> st.format, quality |-> st.quality,
              previewUrl |-> img.previewUrl, livePreviewUrl |-> img.currentPreviewUrl,
              isMounted |-> TRUE]}

LiveDeps(img, st) ==
    <<img.file, st.quality, st.format, SupportsQuality(st.format), img.previewUrl,
      img.currentPreviewUrl>>

\* The live preview effect after a render that took the state from (img0, st0) to
\* (img, st): the cleanup of the instance before, then a new debounce timer.
LivePreviewEffect(w, img0, st0, img, st) ==
    IF LiveDeps(img, st) = LiveDeps(img0, st0) THEN w
    ELSE LET c == LiveCleanup(w, img0)
         IN  [c EXCEPT !.timers = LiveSetTimeout(c.timers, img, st)]

\* The auto-quality effect of this component: any format.
LiveAutoQualityEffect(img0, st0, img, st) ==
    IF /\ AutoDeps(img, st) # AutoDeps(img0, st0)
       /\ st.autoQuality /\ img.file # NoFile
    THEN [st EXCEPT !.quality = getAutoQuality(img.file, st.format)]
    ELSE st

\* A handler or continuation has set the state to (img, st) and the object URLs to us:
\* the render, the effects, the render the auto-quality effect causes, and the effects
\* of that render.
LiveCommit(us, cs, ts, img, st) ==
    LET w0  == [timers |-> ts, calls |-> cs, urls |-> us]
        w1  == LivePreviewEffect(w0, imageState, settings, img, st)
        st2 == LiveAutoQualityEffect(imageState, settings, img, st)
        w2  == LivePreviewEffect(w1, img, st, img, st2)
    IN  /\ imageState' = img
        /\ settings' = st2
        /\ timers' = w2.timers
        /\ calls' = w2.calls
        /\ urls' = w2.urls

\* The state after the first render and its effects: the preview effect has set its
\* debounce timer.
InitLive ==
    /\ mounted = TRUE
    /\ nEvents = 0
    /\ imageState = [file |-> NoFile, previewUrl |-> 0,
                     currentPreviewUrl |-> 0, nextPreviewUrl |-> 0]
    /\ settings = [format |-> "jpeg", quality |-> 95, autoQuality |-> TRUE]
    /\ loadingStates = [converting |-> FALSE, loading |-> FALSE, showLoading |-> FALSE]
    /\ error = ""
    /\ timers = LiveSetTimeout({}, imageState, settings)
    /\ calls = {}
    /\ nCalls = 0
    /\ blobCache = [k \in {} |-> NoBlob]
    /\ nBlobs = 0
    /\ urls = <<>>
    /\ bitmaps = <<>>
    /\ returned = {}
    /\ shown = NoRequest
    /\ lastPreviewSeq = 0
    /\ callsSinceChange = 0
    /\ burst = 0
    /\ download = ""
    /\ InitCn

\* handleFileDrop of this component; setLoading and setShowLoading are set and reset
\* within the handler.
LiveHandleFileDrop(file) ==
    /\ mounted
    /\ nEvents < MaxEvents
    /\ nEvents' = nEvents + 1
    /\ file # imageState.file
    /\ loadingStates' = [loadingStates EXCEPT !.loading = FALSE, !.showLoading = FALSE]
    /\ IF file.size > maxSize
       THEN /\ error' = "File size exceeds 20MB limit"
            /\ UNCHANGED <<imageState, settings, timers, calls, urls>>
       ELSE /\ error' = ""
            /\ LiveCommit(CreateObjectURL(urls, "file"), calls, timers,
                          [imageState EXCEPT !.file = file,
                                             !.previewUrl = Len(urls) + 1],
                          IF settings.autoQuality
                          THEN [settings EXCEPT
                                  !.quality = getAutoQuality(file, settings.format)]
                          ELSE settings)
    /\ UNCHANGED <<mounted, nCalls, blobCache, nBlobs, bitmaps, returned, shown,
                   lastPreviewSeq, callsSinceChange, burst>>
    /\ UNCHANGED <<download, cnVars>>

\* <Select value={format} onValueChange={setFormat}>
setFormat(format) ==
    /\ mounted
    /\ nEvents < MaxEvents
    /\ nEvents' = nEvents + 1
    /\ LiveCommit(urls, calls, timers, imageState, [settings EXCEPT !.format = format])
    /\ UNCHANGED <<mounted, loadingStates, error, nCalls, blobCache, nBlobs, bitmaps,
                   returned, shown, lastPreviewSeq, callsSinceChange, burst>>
    /\ UNCHANGED <<download, cnVars>>

\* The slider, rendered only when supportsQuality holds:
\* setAutoQuality(false); setQuality(value[0]).
setQuality(value) ==
    /\ mounted
    /\ nEvents < MaxEvents
    /\ nEvents' = nEvents + 1
    /\ SupportsQuality(settings.format)
    /\ LiveCommit(urls, calls, timers, imageState,
                  [settings EXCEPT !.quality = value, !.autoQuality = FALSE])
    /\ UNCHANGED <<mounted, loadingStates, error, nCalls, blobCache, nBlobs, bitmaps,
                   returned, shown, lastPreviewSeq, callsSinceChange, burst>>
    /\ UNCHANGED <<download, cnVars>>

\* The checkbox, rendered only when supportsQuality holds.
setAutoQuality(checked) ==
    /\ mounted
    /\ nEvents < MaxEvents
    /\ nEvents' = nEvents + 1
    /\ SupportsQuality(settings.format)
    /\ LiveCommit(urls, calls, timers, imageState,
                  [settings EXCEPT !.autoQuality = checked])
    /\ UNCHANGED <<mounted, loadingStates, error, nCalls, blobCache, nBlobs, bitmaps,
                   returned, shown, lastPreviewSeq, callsSinceChange, burst>>
    /\ UNCHANGED <<download, cnVars>>

\* The debounce timer expires: updateLivePreview up to its await.  Without a file or
\* with png/avif it sets livePreviewUrl to previewUrl; otherwise it sets the loading
\* timeout, revokes the livePreviewUrl of its closure and calls generatePreview, whose
\* convertImage creates the temporary object URL and sets img.src.
updateLivePreview ==
    /\ \E t \in timers :
          IF t.file = NoFile \/ ~SupportsQuality(t.format)
          THEN /\ LiveCommit(urls, calls, timers \ {t},
                             [imageState EXCEPT !.currentPreviewUrl = t.previewUrl],
                             settings)
               /\ UNCHANGED <<nCalls, loadingStates>>
          ELSE /\ nCalls < MaxCalls
               /\ nCalls' = nCalls + 1
               /\ timers' = timers \ {t}
               /\ loadingStates' = [loadingStates EXCEPT !.loading = TRUE]
               /\ urls' = CreateObjectURL(RevokeObjectURL(urls, t.livePreviewUrl), "temp")
               /\ calls' = calls \cup {[seq            |-> nCalls + 1,
                                        file           |-> t.file,
                                        format         |-> t.format,
                                        quality        |-> t.quality,
                                        isMounted      |-> t.isMounted,
                                        loadingTimeout |-> TRUE,
                                        objectUrl      |-> Len(urls) + 1,
                                        stage          |-> "load"]}
               /\ UNCHANGED <<imageState, settings>>
    /\ UNCHANGED <<mounted, nEvents, error, blobCache, nBlobs, bitmaps, returned, shown,
                   lastPreviewSeq, callsSinceChange, burst>>
    /\ UNCHANGED <<download, cnVars>>

\* The loading timeout expires 150 ms after the conversion was started.
LoadingTimeoutFires(c) ==
    /\ c.loadingTimeout
    /\ calls' = (calls \ {c}) \cup {[c EXCEPT !.loadingTimeout = FALSE]}
    /\ loadingStates' = IF c.isMounted
                        THEN [loadingStates EXCEPT !.showLoading = TRUE]
                        ELSE loadingStates
    /\ UNCHANGED <<mounted, nEvents, imageState, settings, error, timers, nCalls,
                   blobCache, nBlobs, urls, bitmaps, returned, shown, lastPreviewSeq,
                   callsSinceChange, burst>>
    /\ UNCHANGED <<download, cnVars>>

\* The finally block of updateLivePreview.
LiveFinally(c) ==
    IF c.isMounted
    THEN [loadingStates EXCEPT !.loading = FALSE, !.showLoading = FALSE]
    ELSE loadingStates

\* canvas.toBlob gives a Blob: convertImage revokes its temporary URL and resolves,
\* generatePreview creates the object URL of the Blob, and updateLivePreview, if its
\* effect instance is still the current one, sets livePreviewUrl to it.
LivePreviewResolves(c) ==
    /\ c.stage = "toBlob"
    /\ nBlobs' = nBlobs + 1
    /\ LET us            == CreateObjectURL(RevokeObjectURL(urls, c.objectUrl),
                                             IF c.isMounted THEN "preview"
                                             ELSE "superseded")
           newPreviewUrl == Len(urls) + 1
       IN  LiveCommit(us, calls \ {c}, timers,
                      IF c.isMounted
                      THEN [imageState EXCEPT !.currentPreviewUrl = newPreviewUrl]
                      ELSE imageState,
                      settings)
    /\ loadingStates' = LiveFinally(c)
    /\ UNCHANGED <<mounted, nEvents, error, nCalls, blobCache, bitmaps, returned, shown,
                   lastPreviewSeq, callsSinceChange, burst>>
    /\ UNCHANGED <<download, cnVars>>

\* canvas.toBlob gives null: convertImage revokes its temporary URL and rejects; the
\* catch of updateLivePreview logs.
LivePreviewRejects(c) ==
    /\ c.stage = "toBlob"
    /\ urls' = RevokeObjectURL(urls, c.objectUrl)
    /\ calls' = calls \ {c}
    /\ loadingStates' = LiveFinally(c)
    /\ UNCHANGED <<mounted, nEvents, imageState, settings, error, timers, nCalls,
                   blobCache, nBlobs, bitmaps, returned, shown, lastPreviewSeq,
                   callsSinceChange, burst>>
    /\ UNCHANGED <<download, cnVars>>

\* The component unmounts: the cleanup of the live preview effect.
LiveUnmount ==
    /\ mounted
    /\ mounted' = FALSE
    /\ LET w == LiveCleanup(LiveWorld, imageState)
       IN  /\ timers' = w.timers
           /\ calls' = w.calls
           /\ urls' = w.urls
    /\ UNCHANGED <<nEvents, imageState, settings, loadingStates, error, nCalls,
                   blobCache, nBlobs, bitmaps, returned, shown, lastPreviewSeq,
                   callsSinceChange, burst>>
    /\ UNCHANGED <<download, cnVars>>

NextLive ==
    \/ \E file \in Files : LiveHandleFileDrop(file)
    \/ \E format \in Formats : setFormat(format)
    \/ \E value \in SliderValues : setQuality(value)
    \/ \E checked \in BOOLEAN : setAutoQuality(checked)
    \/ updateLivePreview
    \/ \E c \in calls : LoadingTimeoutFires(c)
    \/ \E c \in calls : ImgOnload(c)
    \/ \E c \in calls : ImgOnerror(c)
    \/ \E c \in calls : LivePreviewResolves(c)
    \/ \E c \in calls : LivePreviewRejects(c)
    \/ LiveUnmount

SpecLive == InitLive /\ [][NextLive]_vars

\* C24: in the 150 ms-debounce component no object URL is revoked more than once.
C24_NoDoubleRevoke150 ==
    \A u \in DOMAIN urls : urls[u].revoked <= 1

\* C26: a step without user input in which the result of a conversion is published as
\* livePreviewUrl leaves no debounce timer pending that will issue another conversion.
C26_PublishingSchedulesNothing ==
    [][(/\ nEvents' = nEvents
        /\ nBlobs' = nBlobs + 1
        /\ imageState'.currentPreviewUrl # livePreviewUrl)
          => \A t \in timers' : t.file = NoFile \/ ~SupportsQuality(t.format)]_vars

(***************************************************************************)
(* Properties of the page component with the 250 ms debounce, continued.   *)
(***************************************************************************)
\* C25: whenever the component is mounted, no debounce timer is pending and no preview
\* conversion is in flight, loadingStates.preview is false.
C25_IndicatorCleared ==
    (mounted /\ timers = {} /\ \A c \in calls : c.path # "preview")
        => ~loadingStates.preview

\* C27: a step in which a conversion fails (the call settles and no Blob was made)
\* leaves the cache as it was, so that the same request made right after it still
\* misses when it missed before; and every cache entry is a Blob canvas.toBlob has
\* produced, the one a call with that key was answered with.
C27_FailureNotCached ==
    [][/\ \A c \in calls :
             ((\A d \in calls' : d.seq # c.seq) /\ nBlobs' = nBlobs) =>
                 /\ blobCache' = blobCache
                 /\ ConvertImage(blobCache, 0, c.path, TRUE,
                                 c.file, c.format, c.quality).stage = "bitmap"
                      => ConvertImage(blobCache', 0, c.path, TRUE,
                                      c.file, c.format, c.quality).stage = "bitmap"
       /\ \A k \in DOMAIN blobCache' :
             /\ blobCache'[k].id \in 1 .. nBlobs'
             /\ \E r \in returned' :
                   /\ r.blob = blobCache'[k]
                   /\ CacheKey(r.file, r.format, r.quality) = k]_vars

\* C27, witness: after the one change of the session a conversion has failed, so that
\* no Blob exists and the cache is empty, and a second conversion for the same file,
\* format and quality has missed and is running the codec.
C27_Witness ==
    /\ nEvents = 1
    /\ nCalls = 2
    /\ nBlobs = 0
    /\ DOMAIN blobCache = {}
    /\ Cardinality(calls) = 1
    /\ \E c \in calls : c.stage \in {"bitmap", "toBlob"}

\* C28: moving the slider sets quality to the chosen value and autoQuality to false and
\* leaves the format and the selected file as they were; while autoQuality stays off,
\* no step other than a move of the slider changes quality as long as the format stays
\* among jpeg and webp; and autoQuality is turned on by the checkbox only.
C28_ManualQualityKept ==
    [][/\ \A value \in SliderValues :
             handleQualityChange(value) =>
                 /\ settings' = [format |-> settings.format, quality |-> value,
                                 autoQuality |-> FALSE]
                 /\ imageState'.file = imageState.file
       /\ (/\ ~settings.autoQuality /\ ~settings'.autoQuality
           /\ settings.format \in {"jpeg", "webp"}
           /\ settings'.format \in {"jpeg", "webp"}
           /\ ~ \E value \in SliderValues : handleQualityChange(value))
          => settings'.quality = settings.quality
       /\ (~settings.autoQuality /\ settings'.autoQuality) => onCheckedChange(TRUE)]_vars

\* C28, witness: the slider was moved to 30, and a file drop and a change of format
\* to webp are the other two inputs of the session: the quality is still 30.
C28_Witness ==
    /\ settings = [format |-> "webp", quality |-> 30, autoQuality |-> FALSE]
    /\ imageState.file # NoFile
    /\ nEvents = 3

\* C29, as stated: with autoQuality off, a change of format leaves quality unchanged.
C29_Original ==
    [][\A format \in Formats :
          (handleFormatChange(format) /\ ~settings.autoQuality)
              => settings'.quality = settings.quality]_vars

\* C29: with autoQuality off, a change of format to jpeg or webp leaves quality
\* unchanged and a change to png or avif sets it to 100; so after a switch to png or
\* avif and back the quality is 100, not the value set with the slider.
C29_FormatChangeAutoOff ==
    [][\A format \in Formats :
          (handleFormatChange(format) /\ ~settings.autoQuality)
              => /\ ~settings'.autoQuality
                 /\ settings'.quality = IF format \in {"jpeg", "webp"}
                                         THEN settings.quality ELSE 100]_vars

\* C29, witness: autoQuality is off and the format is png or avif.  The slider and the
\* checkbox are rendered for jpeg and webp only, so autoQuality was turned off before
\* the format was changed, at a quality of 30 or 95; the quality is 100 now.
C29_Witness ==
    /\ ~settings.autoQuality
    /\ settings.format \in {"png", "avif"}
    /\ settings.quality = 100
    /\ nEvents = 2

\* C30: while no file is selected or the format is png or avif, no debounce timer is
\* pending and no preview conversion is in flight that is not superseded; a preview
\* conversion is issued only with a file selected and jpeg or webp as the format; and a
\* step that changes the settings, and not the file, in or into such a state leaves
\* currentPreviewUrl and nextPreviewUrl as they were.
C30_NoPreviewWithoutFileOrQuality ==
    [][LET NoPreview(img, st) == img.file = NoFile \/ st.format \in {"png", "avif"}
       IN  /\ NoPreview(imageState', settings') =>
                 /\ timers' = {}
                 /\ \A c \in calls' : c.path = "preview" => ~c.isMounted
           /\ Issued => /\ ~NoPreview(imageState, settings)
                        /\ ~NoPreview(imageState', settings')
           /\ (/\ settings' # settings
               /\ imageState'.file = imageState.file
               /\ NoPreview(imageState, settings) \/ NoPreview(imageState', settings'))
              => /\ imageState'.currentPreviewUrl = imageState.currentPreviewUrl
                 /\ imageState'.nextPreviewUrl = imageState.nextPreviewUrl]_vars

\* C30, witness: a converted preview was published and the user has then chosen png or
\* avif: no timer is pending and the preview URLs are those of that preview.
C30_Witness ==
    /\ mounted
    /\ settings.format \in {"png", "avif"}
    /\ imageState.nextPreviewUrl # 0
    /\ imageState.currentPreviewUrl = imageState.nextPreviewUrl
    /\ timers = {}

(***************************************************************************)
(* Properties of the quality estimator, continued.                         *)
(***************************************************************************)
\* C31: the estimate is monotonically non-increasing in the file size for each format:
\* the quality estimated for a file is not above the estimate for any smaller file; and
\* for every size the webp estimate is the jpeg estimate minus 5.
C31_MonotoneAndFiveApart ==
    [][LET file == imageState.file
           Sized(size) == [file EXCEPT !.size = size]
       IN  /\ \A size \in SizeSamples :
                 size <= file.size =>
                     settings'.quality <= getAutoQuality(Sized(size), settings.format)
           /\ \A size \in SizeSamples :
                 size >= file.size =>
                     settings'.quality >= getAutoQuality(Sized(size), settings.format)
           /\ settings.format = "webp" =>
                 settings'.quality = getAutoQuality(file, "jpeg") - 5
           /\ settings.format = "jpeg" =>
                 getAutoQuality(file, "webp") = settings'.quality - 5]_vars

\* C31, witness: a file one byte above 10 MB has the lowest jpeg estimate, 50, after
\* the estimate was taken.
C31_Witness ==
    /\ imageState.file.size = 10 * MB + 1
    /\ settings.format = "jpeg"
    /\ settings.quality = 50

(***************************************************************************)
(* The name of the download.  The page component of src/app/page.tsx       *)
(* 572-944 in sessions where the user drops one file, of any sampled name, *)
(* and then uses the page as before.                                       *)
(***************************************************************************)
\* The files of the sampled names: 3 MB each.
NamedFile(parts) == [name |-> Join(parts, "."), content |-> 1, size |-> 3 * MB]

NextName ==
    \/ \E parts \in NameSamples :
          /\ imageState.file = NoFile
          /\ handleFileDrop(NamedFile(parts))
    \/ \E format \in Formats : handleFormatChange(format)
    \/ TimerFire
    \/ handleConvert
    \/ \E c \in calls : BitmapResolves(c)
    \/ \E c \in calls : BitmapRejects(c)
    \/ \E c \in calls : ToBlobResolves(c)
    \/ \E c \in calls : ToBlobRejects(c)
    \/ Unmount

SpecName == Init /\ [][NextName]_vars

\* The name the download is to get: the file name up to its last dot, or all of it when
\* it has no dot, then "-" and the format.
NameWithoutExtension(name) ==
    LET parts == Split(name)
    IN  IF Len(parts) = 1 THEN name ELSE Join(SubSeq(parts, 1, Len(parts) - 1), ".")

\* C32: whenever a converted image is handed to the browser as a download, from the
\* codec or from the cache, the download is named after the file and the format that
\* were selected when Convert was clicked: the file name with only its last extension
\* removed, kept whole when it contains no dot, followed by "-" and the format.
C32_DownloadNamedAfterFile ==
    [][/\ \A c \in calls :
             (c.path = "download" /\ ToBlobResolves(c)) =>
                 download' = NameWithoutExtension(c.file.name) \o "-" \o c.format
       /\ (handleConvert /\ Len(urls') > Len(urls)) =>
             download' = NameWithoutExtension(imageState.file.name)
                             \o "-" \o settings.format]_vars

(***************************************************************************)
(* cn (src/lib/imageUtils.ts:110-127): twMerge(clsx(inputs)) behind a memo *)
(* of the most recent call.  Callers pass strings and objects; an object   *)
(* is passed by reference and its owner may change it between calls.       *)
(***************************************************************************)
\* ClassValue: a string, or an object whose keys with truthy values are class names.
StringValue(str) == [kind |-> "string", str |-> str, ref |-> 0]

ObjectValue(ref) == [kind |-> "object", str |-> "", ref |-> ref]

ClassValues ==
    {StringValue(str) : str \in {"p-2", "hidden"}}
        \cup {ObjectValue(ref) : ref \in 1 .. MaxObjects}

\* The argument lists of a call: ...inputs
InputSamples == UNION {[1 .. n -> ClassValues] : n \in 0 .. MaxInputs}

\* input === lastInputs[i]: strings by value, objects by reference.
StrictEquals(a, b) == a = b

\* clsx: the class names of the inputs in order, a string as it is, an object as its
\* keys with truthy values.  The names are kept as a list, not joined by spaces.
RECURSIVE clsx(_, _)
clsx(inputs, heap) ==
    IF inputs = <<>> THEN <<>>
    ELSE LET input == Head(inputs)
         IN  (IF input.kind = "string" THEN <<input.str>>
              ELSE SelectSeq(ObjectKeys, LAMBDA key : key \in heap[input.ref]))
                 \o clsx(Tail(inputs), heap)

\* The Tailwind utilities that set the same CSS property.
ConflictGroup(class) == IF class \in {"p-2", "p-4"} THEN "padding" ELSE "display"

\* twMerge: of the classes of one conflict group only the last is kept; the result is
\* the string of the remaining classes separated by spaces.
RECURSIVE MergeClassList(_)
MergeClassList(classes) ==
    IF classes = <<>> THEN <<>>
    ELSE IF \E j \in 2 .. Len(classes) :
                ConflictGroup(classes[j]) = ConflictGroup(classes[1])
         THEN MergeClassList(Tail(classes))
         ELSE <<classes[1]>> \o MergeClassList(Tail(classes))

twMerge(classes) == Join(MergeClassList(classes), " ")

\* export function cn(...inputs: ClassValue[])
cn(inputs) ==
    /\ IF /\ lastInputs # <<>>
          /\ Len(inputs) = Len(lastInputs[1])
          /\ \A i \in DOMAIN inputs : StrictEquals(inputs[i], lastInputs[1][i])
       THEN /\ cnReturned' = <<[inputs |-> inputs, objects |-> objects,
                                result |-> lastResult[1]]>>
            /\ UNCHANGED <<lastInputs, lastResult>>
       ELSE LET result == twMerge(clsx(inputs, objects))
            IN  /\ lastInputs' = <<inputs>>
                /\ lastResult' = <<result>>
                /\ cnReturned' = <<[inputs |-> inputs, objects |-> objects,
                                    result |-> result]>>
    /\ UNCHANGED <<mounted, nEvents, imageState, settings, loadingStates, error, timers,
                   calls, nCalls, blobCache, nBlobs, urls, bitmaps, returned, shown,
                   lastPreviewSeq, callsSinceChange, burst, download, objects>>

\* Between two calls the owner of an object sets one of its keys to the opposite truth
\* value: the reference stays the same.
ObjectChanged(ref, key) ==
    /\ objects' = [objects EXCEPT ![ref] = IF key \in @ THEN @ \ {key} ELSE @ \cup {key}]
    /\ UNCHANGED <<mounted, nEvents, imageState, settings, loadingStates, error, timers,
                   calls, nCalls, blobCache, nBlobs, urls, bitmaps, returned, shown,
                   lastPreviewSeq, callsSinceChange, burst, download, lastInputs,
                   lastResult, cnReturned>>

NextCn ==
    \/ \E inputs \in InputSamples : cn(inputs)
    \/ \E ref \in DOMAIN objects, i \in DOMAIN ObjectKeys :
          ObjectChanged(ref, ObjectKeys[i])

SpecCn == Init /\ [][NextCn]_vars

\* C33: the string a call of cn returns is the string twMerge(clsx(inputs)) gives for the
\* inputs as they are at the time of the call, also when an object among the inputs is
\* the object of the call before with changed contents.
C33_SameAsUnmemoized ==
    cnReturned # <<>> =>
        cnReturned[1].result = twMerge(clsx(cnReturned[1].inputs, cnReturned[1].objects))

=============================================================================
